---------------------------- MODULE Spec2Model ----------------------------
(***************************************************************************)
(* Action relation ledger of blockinator/lava (src/src/actiondb.cpp).      *)
(*                                                                         *)
(* The module models                                                       *)
(*   - the action codec (SerializeAction, UnserializeAction, SignAction,   *)
(*     VerifyAction) on byte sequences,                                    *)
(*   - the extraction of an action from a transaction (DecodeAction),      *)
(*   - the relation view CRelationView: the two tip maps, the per-identity *)
(*     history, the persisted undo log and plot-id registry, and the       *)
(*     operations ConnectBlock, DisconnectBlock, LoadRelationFromDisk, To  *)
(*     and ListRelations.                                                  *)
(***************************************************************************)
EXTENDS Integers, Sequences, FiniteSets, TLC

(***************************************************************************)
(* Bounds of the model.                                                    *)
(***************************************************************************)
\* Private keys are 1..NumKeys; key k owns the identity k.
NumKeys == 2
\* Block heights are 0..MaxHeight.
MaxHeight == 2
\* A block holds at most MaxBlockTx transactions.
MaxBlockTx == 2

(***************************************************************************)
(* Program constants.                                                      *)
(***************************************************************************)
\* Length of a compact recoverable signature (the trailing bytes of the payload).
SigLen == 65
\* Serialized width of a CKeyID (uint160).
KeyIDLen == 20
\* Serialized width of the int discriminant written by "ss << action.which()".
IntLen == 4
\* Serialized width of a uint256 (COutPoint::hash, the digest).
HashLen == 32
\* Params().GetConsensus().nActionFee
nActionFee == 10
\* COutPoint::NULL_INDEX, numeric_limits<uint32_t>::max(), as a 32-bit pattern.
NULL_INDEX == -1
\* CTxOut::SetNull: the value of the output of an empty (spent or unknown) coin.
NullTxOutValue == -1
\* Modulus of the model's digest function.
HashMod == 65521
\* Initial value of the model's digest function.
HashSeed == 7

Keys == 1..NumKeys
Heights == 0..MaxHeight

\* CKeyID(): the all-zero identity.
NullKeyID == 0
\* CPubKey::GetID of the public key of private key k.
GetID(k) == k
\* The identities some key of the model owns.
OwnedKeyIDs == {GetID(k) : k \in Keys}
\* Stands for every identity whose bytes are not those of a model identity.
ForeignKeyID == NumKeys + 1
KeyIDs == {NullKeyID} \cup OwnedKeyIDs \cup {ForeignKeyID}

(***************************************************************************)
(* Byte sequences and the serialization primitives.                        *)
(***************************************************************************)
\* 256^i for the four low bytes.
Pow256(i) == CASE i = 0 -> 1 [] i = 1 -> 256 [] i = 2 -> 65536 [] OTHER -> 16777216

\* w bytes, little endian, of the two's complement pattern of the 32-bit
\* number n (sign-extended beyond the fourth byte).
LE(n, w) ==
    [i \in 1..w |-> IF i <= 4 THEN (n \div Pow256(i - 1)) % 256
                    ELSE IF n < 0 THEN 255 ELSE 0]

Zeros(n) == [i \in 1..n |-> 0]

IsZeros(b) == \A i \in 1..Len(b) : b[i] = 0

\* The 32-bit signed value of four little-endian bytes.
ReadInt32(b) ==
    LET low == b[1] + 256 * b[2] + 65536 * b[3]
    IN  IF b[4] < 128 THEN low + 16777216 * b[4]
                      ELSE low + 16777216 * (b[4] - 256)

\* Serialize(CKeyID): the 20 bytes of the uint160.
SerializeKeyID(id) == LE(id, KeyIDLen)

\* Unserialize(CKeyID): the identity whose 20 bytes these are.
UnserializeKeyID(b) ==
    IF IsZeros(SubSeq(b, 2, KeyIDLen)) /\ b[1] \in (KeyIDs \ {ForeignKeyID})
    THEN b[1]
    ELSE ForeignKeyID

\* Serialize(COutPoint): READWRITE(hash); READWRITE(n).
SerializeOutPoint(out) == LE(out[1], HashLen) \o LE(out[2], IntLen)

\* Serialize(std::vector<unsigned char>): compact size, then the bytes
\* (every vector of the model is shorter than 253 bytes).
SerializeVector(vch) == <<Len(vch)>> \o vch

RECURSIVE HashRange(_, _, _)
\* The position-weighted sum of the bytes lo..hi of b.
HashRange(b, lo, hi) ==
    IF lo > hi THEN 0
    ELSE IF lo = hi THEN (b[lo] + 1) * (lo * lo + 3 * lo + 1)
    ELSE LET mid == (lo + hi) \div 2
         IN  HashRange(b, lo, mid) + HashRange(b, mid + 1, hi)

\* The digest of a byte sequence, as a number: stands for
\* CHashWriter::GetHash (double SHA-256).
HashBytes(b) == (HashSeed + HashRange(b, 1, Len(b))) % HashMod

\* CHashWriter::GetHash as a uint256.
GetHash(b) == LE(HashBytes(b), HashLen)

(***************************************************************************)
(* Actions: CNilAction, CBindAction (from, to), CUnbindAction (from).      *)
(***************************************************************************)
NilAction == <<"Nil">>
\* MakeBindAction
MakeBindAction(from, to) == <<"Bind", from, to>>
MakeUnbindAction(from) == <<"Unbind", from>>

IsBind(a) == a[1] = "Bind"
IsUnbind(a) == a[1] = "Unbind"
IsNil(a) == a[1] = "Nil"

\* boost::variant::which()
Which(a) == IF IsBind(a) THEN 1 ELSE IF IsUnbind(a) THEN 2 ELSE 0

\* The result of a read past the end of a CDataStream: std::ios_base::failure.
StreamFailure == <<"ios_base::failure">>
IsFailure(a) == a[1] = "ios_base::failure"

\* A SerializeAction that writes the fields of a bind in the other order.
SerializeAction_Swapped(action) ==
    LE(Which(action), IntLen) \o
    (IF IsBind(action)
     THEN SerializeKeyID(action[3]) \o SerializeKeyID(action[2])
     ELSE IF IsUnbind(action) THEN SerializeKeyID(action[2])
     ELSE <<>>)

\* SerializeAction: the discriminant, then the fields of the variant.
SerializeAction(action) ==
    LE(Which(action), IntLen) \o
    (IF IsBind(action)
     THEN SerializeKeyID(action[2]) \o SerializeKeyID(action[3])
     ELSE IF IsUnbind(action) THEN SerializeKeyID(action[2])
     ELSE <<>>)

\* CDataStream::read of n bytes at offset pos: possible only when the bytes are there.
CanRead(vch, pos, n) == pos + n <= Len(vch)

\* UnserializeAction: reads the discriminant and then the fields; a read past
\* the end of the stream throws, which the function does not catch.
UnserializeAction(vch) ==
    IF ~CanRead(vch, 0, IntLen) THEN StreamFailure
    ELSE LET ty == ReadInt32(SubSeq(vch, 1, IntLen))
         IN  CASE ty = 1 ->
                    IF ~CanRead(vch, IntLen, 2 * KeyIDLen) THEN StreamFailure
                    ELSE <<"Bind",
                           UnserializeKeyID(SubSeq(vch, IntLen + 1, IntLen + KeyIDLen)),
                           UnserializeKeyID(SubSeq(vch, IntLen + KeyIDLen + 1,
                                                   IntLen + 2 * KeyIDLen))>>
               [] ty = 2 ->
                    IF ~CanRead(vch, IntLen, KeyIDLen) THEN StreamFailure
                    ELSE <<"Unbind",
                           UnserializeKeyID(SubSeq(vch, IntLen + 1, IntLen + KeyIDLen))>>
               [] OTHER -> NilAction

(***************************************************************************)
(* Compact recoverable signatures (CKey::SignCompact, RecoverCompact).     *)
(* A signature is 65 bytes: a header, the digest it signs and the key.     *)
(***************************************************************************)
NoPubKey == 0

\* CKey::SignCompact(hash, vchSig)
SignCompact(key, hash) == <<27>> \o hash \o LE(key, HashLen)

\* CPubKey::RecoverCompact(hash, vchSig): the key that produced vchSig over
\* hash; no public key of the model otherwise.
RecoverCompact(hash, vchSig) ==
    IF \E k \in Keys : SignCompact(k, hash) = vchSig
    THEN CHOOSE k \in Keys : SignCompact(k, hash) = vchSig
    ELSE NoPubKey

\* A digest that leaves the outpoint out.
ActionDigest_NoOutPoint(out, action) ==
    GetHash(SerializeVector(SerializeAction(action)))

\* The digest both SignAction and VerifyAction compute: ss << actionVch << out.
ActionDigest(out, action) ==
    GetHash(SerializeVector(SerializeAction(action)) \o SerializeOutPoint(out))

\* SignAction: vch = SerializeAction(action) followed by the signature.
SignAction(out, action, key) ==
    SerializeAction(action) \o SignCompact(key, ActionDigest(out, action))

\* A VerifyAction that accepts whichever key the signature recovers to.
VerifyAction_AnyKey(out, action, vchSig) ==
    LET pubkey == RecoverCompact(ActionDigest(out, action), vchSig)
    IN  pubkey # NoPubKey /\ (IsBind(action) \/ IsUnbind(action))

\* VerifyAction
VerifyAction(out, action, vchSig) ==
    LET pubkey == RecoverCompact(ActionDigest(out, action), vchSig)
    IN  IF pubkey = NoPubKey THEN FALSE
        ELSE IF IsBind(action) THEN action[2] = GetID(pubkey)
        ELSE IF IsUnbind(action) THEN action[2] = GetID(pubkey)
        ELSE FALSE


(***************************************************************************)
(* Transactions, scripts and the coin view.                                *)
(* An outpoint is <<hash, n>>; a script is its sequence of operations, as  *)
(* CScript::GetOp returns them: [opcode, data].                            *)
(***************************************************************************)
OutPoint(hash, n) == <<hash, n>>
\* COutPoint::IsNull
OutPointIsNull(out) == out[1] = 0 /\ out[2] = NULL_INDEX

\* CTransaction::IsNull
TxIsNull(tx) == tx.vin = <<>> /\ tx.vout = <<>>
\* CTransaction::IsCoinBase
TxIsCoinBase(tx) == Len(tx.vin) = 1 /\ OutPointIsNull(tx.vin[1])

RECURSIVE SumValues(_)
SumValues(vout) == IF vout = <<>> THEN 0 ELSE Head(vout).nValue + SumValues(Tail(vout))
\* CTransaction::GetValueOut: the sum of the output values.
GetValueOut(tx) == SumValues(tx.vout)

\* The amount every unspent coin of the model holds.
CoinAmount == 100
\* The transaction hashes whose output 0 is an unspent coin of pcoinsTip.
NumCoins == 20
\* pcoinsTip->AccessCoin(prevout).out.nValue: the value of the coin, and the
\* value of a null CTxOut when pcoinsTip has no such coin.
AccessCoinValue(prevout) ==
    IF prevout[1] \in 1..NumCoins /\ prevout[2] = 0 THEN CoinAmount ELSE NullTxOutValue

RECURSIVE SumInputs(_)
\* The loop "for (auto vin : tx->vin) nAmount += coin.out.nValue".
SumInputs(vin) == IF vin = <<>> THEN 0 ELSE AccessCoinValue(Head(vin)) + SumInputs(Tail(vin))

\* CScript::GetOp at operation index pc: is there an operation to read.
GetOp(script, pc) == pc <= Len(script)

\* The payload DecodeAction reads: vchRet after the second GetOp, which is
\* empty when the script has no second operation or it pushes nothing.
CarrierPayload(script) == IF GetOp(script, 2) THEN script[2].data ELSE <<>>

RECURSIVE DecodeOutputs(_, _)
\* The loop of DecodeAction over tx->vout, from output i on.  The result is
\* [action, vchSig, threw]: threw when UnserializeAction raised.
DecodeOutputs(vout, i) ==
    IF i > Len(vout) THEN [action |-> NilAction, vchSig |-> <<>>, threw |-> FALSE]
    ELSE IF vout[i].nValue # 0 THEN DecodeOutputs(vout, i + 1)
    ELSE LET script == vout[i].scriptPubKey
         IN  IF ~GetOp(script, 1) \/ script[1].opcode # "OP_RETURN"
             THEN DecodeOutputs(vout, i + 1)
             ELSE LET vchRet == CarrierPayload(script)
                      action == UnserializeAction(vchRet)
                  IN  IF IsFailure(action)
                      THEN [action |-> NilAction, vchSig |-> <<>>, threw |-> TRUE]
                      ELSE IF Len(vchRet) < SigLen THEN DecodeOutputs(vout, i + 1)
                      ELSE [action |-> action,
                            vchSig |-> SubSeq(vchRet, Len(vchRet) - SigLen + 1, Len(vchRet)),
                            threw  |-> FALSE]

\* The shape test at the head of DecodeAction.
ShapeOk(tx) ==
    ~(\/ TxIsCoinBase(tx)
      \/ TxIsNull(tx)
      \/ Len(tx.vout) # 2
      \/ (tx.vout[1].nValue # 0 /\ tx.vout[2].nValue # 0))

\* A fee test that lets an overpaying transaction through.
FeeOk_AtLeast(tx) == SumInputs(tx.vin) - GetValueOut(tx) >= nActionFee

\* The fee test of DecodeAction.
FeeOk(tx) == SumInputs(tx.vin) - GetValueOut(tx) = nActionFee

\* DecodeAction
DecodeAction(tx) ==
    IF ~ShapeOk(tx) THEN [action |-> NilAction, vchSig |-> <<>>, threw |-> FALSE]
    ELSE IF ~FeeOk(tx) THEN [action |-> NilAction, vchSig |-> <<>>, threw |-> FALSE]
    ELSE DecodeOutputs(tx.vout, 1)


(***************************************************************************)
(* The transactions and blocks the model feeds to ConnectBlock.            *)
(***************************************************************************)
OpReturn == [opcode |-> "OP_RETURN", data |-> <<>>]
PushData(vch) == [opcode |-> "OP_PUSHDATA", data |-> vch]
\* An ordinary payment script.
PayScript == <<[opcode |-> "OP_DUP", data |-> <<>>]>>
CarrierOut(payload) == [nValue |-> 0, scriptPubKey |-> <<OpReturn, PushData(payload)>>]
PayOut(value) == [nValue |-> value, scriptPubKey |-> PayScript]

\* The transaction i: it spends the coin OutPoint(i, 0), carries payload in a
\* zero-value output and pays fee.
ActionTx(i, payload, fee) ==
    [hash |-> i,
     vin  |-> <<OutPoint(i, 0)>>,
     vout |-> <<CarrierOut(payload), PayOut(CoinAmount - fee)>>]

\* The payload a wallet builds: SignAction for the coin the transaction spends.
Signed(i, action, key) == SignAction(OutPoint(i, 0), action, key)

TxPool ==
    << \* 1..5: well-formed, correctly signed actions
       ActionTx(1, Signed(1, MakeBindAction(1, 2), 1), nActionFee),
       ActionTx(2, Signed(2, MakeUnbindAction(1), 1), nActionFee),
       ActionTx(3, Signed(3, MakeBindAction(2, 1), 2), nActionFee),
       ActionTx(4, Signed(4, MakeUnbindAction(2), 2), nActionFee),
       \* a bind whose target is the null identity
       ActionTx(5, Signed(5, MakeBindAction(1, NullKeyID), 1), nActionFee),
       \* 6, 7: the fee is off by one
       ActionTx(6, Signed(6, MakeBindAction(2, 1), 2), nActionFee + 1),
       ActionTx(7, Signed(7, MakeUnbindAction(1), 1), nActionFee - 1),
       \* 8: signed by a key that does not own from
       ActionTx(8, Signed(8, MakeBindAction(1, 2), 2), nActionFee),
       \* 9: a signature made for another outpoint
       ActionTx(9, Signed(1, MakeBindAction(1, 2), 1), nActionFee),
       \* 10: a payload shorter than the discriminant
       ActionTx(10, <<1, 0, 0>>, nActionFee),
       \* 11: a signed bind cut to one byte less than a signature
       ActionTx(11, SubSeq(Signed(11, MakeBindAction(1, 2), 1), 1, SigLen - 1), nActionFee),
       \* 12: a Nil action with a signature
       ActionTx(12, Signed(12, NilAction, 1), nActionFee),
       \* 13: a coinbase
       [hash |-> 13, vin |-> <<OutPoint(0, NULL_INDEX)>>,
        vout |-> <<CarrierOut(SignAction(OutPoint(0, NULL_INDEX), MakeBindAction(1, 2), 1)),
                   PayOut(0 - nActionFee + NullTxOutValue)>>],
       \* 14: the null transaction
       [hash |-> 14, vin |-> <<>>, vout |-> <<>>],
       \* 15: three outputs
       [hash |-> 15, vin |-> <<OutPoint(15, 0)>>,
        vout |-> <<CarrierOut(Signed(15, MakeBindAction(1, 2), 1)), PayOut(40),
                   PayOut(CoinAmount - nActionFee - 40)>>],
       \* 16: no zero-value output
       [hash |-> 16, vin |-> <<OutPoint(16, 0)>>,
        vout |-> <<[nValue |-> 1, scriptPubKey |->
                        <<OpReturn, PushData(Signed(16, MakeBindAction(1, 2), 1))>>],
                   PayOut(CoinAmount - nActionFee - 1)>>],
       \* 17: the zero-value output is no OP_RETURN script
       [hash |-> 17, vin |-> <<OutPoint(17, 0)>>,
        vout |-> <<[nValue |-> 0, scriptPubKey |->
                        <<PushData(Signed(17, MakeBindAction(1, 2), 1))>>],
                   PayOut(CoinAmount - nActionFee)>>],
       \* 18: the carrier is the second output
       [hash |-> 18, vin |-> <<OutPoint(18, 0)>>,
        vout |-> <<PayOut(CoinAmount - nActionFee),
                   CarrierOut(Signed(18, MakeBindAction(2, ForeignKeyID), 2))>>],
       \* 19: a signed bind cut to 74 bytes: 9 bytes, then 65 bytes
       ActionTx(19, SubSeq(Signed(19, MakeBindAction(1, 2), 1), 1, SigLen + 9), nActionFee)
    >>

TxIds == 1..Len(TxPool)

\* DecodeAction of each transaction of the pool.
DecodeActionOf == [i \in TxIds |-> DecodeAction(TxPool[i])]

\* The test ConnectBlock makes on a decoded transaction: the action is not
\* Nil and VerifyAction accepts it for the previous outpoint of the first input.
VerifyDecoded(tx, d) ==
    IF d.threw \/ IsNil(d.action) THEN FALSE
    ELSE VerifyAction(tx.vin[1], d.action, d.vchSig)

VerifiedOf == [i \in TxIds |-> VerifyDecoded(TxPool[i], DecodeActionOf[i])]

(***************************************************************************)
(* The relation view.  A view is the record of                             *)
(*   relationKeyIDTip    : CKeyID -> CKeyID            (tipByIdentity)     *)
(*   relationTip         : plot id -> plot id          (tipByPlotId)       *)
(*   relationsHistoryMap : CKeyID -> (height -> CKeyID)                    *)
(*   dbActive            : height -> sequence of <<txid, from, to>>        *)
(*                         (the store under DB_ACTIVE_ACTION_KEY)          *)
(*   dbRelationId        : plot id -> CKeyID (the store under DB_RELATIONID)*)
(* A std::map is a function whose domain is the set of its keys.           *)
(***************************************************************************)
EmptyMap == <<>>
MapPut(m, k, v) == [x \in DOMAIN m \cup {k} |-> IF x = k THEN v ELSE m[x]]
MapErase(m, k) == [x \in DOMAIN m \ {k} |-> m[x]]
HasKey(m, k) == k \in DOMAIN m

\* The offset that tells a plot id from the identity it derives from.
PlotIdBase == 100
\* CKeyID::GetPlotID: the plot id derived from an identity.
GetPlotID(id) == PlotIdBase + id

EmptyView ==
    [relationKeyIDTip    |-> EmptyMap,
     relationTip         |-> EmptyMap,
     relationsHistoryMap |-> EmptyMap,
     dbActive            |-> EmptyMap,
     dbRelationId        |-> EmptyMap]

\* An addRelationHistory that keeps the entry a height already has.
addRelationHistory_KeepFirst(v, height, from, to) ==
    LET personalRelationList ==
            IF HasKey(v.relationsHistoryMap, from)
            THEN v.relationsHistoryMap[from] ELSE EmptyMap
    IN  IF HasKey(personalRelationList, height) THEN v
        ELSE [v EXCEPT !.relationsHistoryMap =
                 MapPut(@, from, MapPut(personalRelationList, height, to))]

\* CRelationView::addRelationHistory
addRelationHistory(v, height, from, to) ==
    LET personalRelationList ==
            IF HasKey(v.relationsHistoryMap, from)
            THEN v.relationsHistoryMap[from] ELSE EmptyMap
    IN  [v EXCEPT !.relationsHistoryMap =
            MapPut(@, from, MapPut(personalRelationList, height, to))]

\* An ApplyBind that sets the plot-id tip in both modes.
ApplyBind_AlwaysMirror(v, height, from, to, poc21) ==
    addRelationHistory(
        [v EXCEPT !.relationTip = MapPut(@, GetPlotID(from), GetPlotID(to)),
                  !.relationKeyIDTip = MapPut(@, from, to)],
        height, from, to)

\* The in-memory part of AcceptAction for a bind; LoadRelationFromDisk
\* repeats the same statements for a stored change whose target is not null.
ApplyBind(v, height, from, to, poc21) ==
    LET v1 == IF ~poc21
              THEN [v EXCEPT !.relationTip = MapPut(@, GetPlotID(from), GetPlotID(to))]
              ELSE v
        v2 == [v1 EXCEPT !.relationKeyIDTip = MapPut(@, from, to)]
    IN  addRelationHistory(v2, height, from, to)

\* The in-memory part of AcceptAction for an unbind.
ApplyUnbind(v, height, from, poc21) ==
    LET v1 == IF ~poc21
              THEN [v EXCEPT !.relationTip = MapErase(@, GetPlotID(from))]
              ELSE v
        v2 == [v1 EXCEPT !.relationKeyIDTip = MapErase(@, from)]
    IN  addRelationHistory(v2, height, from, NullKeyID)

\* A batch that holds the registry records of a bind in both modes.
BatchWrites_BothModes(action, poc21) ==
    IF IsBind(action)
    THEN <<<<GetPlotID(action[2]), action[2]>>, <<GetPlotID(action[3]), action[3]>>>>
    ELSE <<>>

\* A batch that holds the registry record of from alone.
BatchWrites_FromOnly(action, poc21) ==
    IF IsBind(action) /\ ~poc21
    THEN <<<<GetPlotID(action[2]), action[2]>>>>
    ELSE <<>>

\* The CDBBatch of AcceptAction: the registry records of a legacy bind.
BatchWrites(action, poc21) ==
    IF IsBind(action) /\ ~poc21
    THEN <<<<GetPlotID(action[2]), action[2]>>, <<GetPlotID(action[3]), action[3]>>>>
    ELSE <<>>

RECURSIVE WriteBatch(_, _)
\* CDBWrapper::WriteBatch of the registry records, in order.
WriteBatch(db, batch) ==
    IF batch = <<>> THEN db
    ELSE WriteBatch(MapPut(db, Head(batch)[1], Head(batch)[2]), Tail(batch))

\* An AcceptAction that writes the undo-log entry of the height as it goes.
AcceptAction_WriteEach(v, height, txid, action, relations, poc21, batchOk) ==
    LET v1 == IF IsBind(action) THEN ApplyBind(v, height, action[2], action[3], poc21)
              ELSE IF IsUnbind(action) THEN ApplyUnbind(v, height, action[2], poc21)
              ELSE v
        rel == IF IsBind(action) THEN Append(relations, <<txid, action[2], action[3]>>)
               ELSE IF IsUnbind(action)
                    THEN Append(relations, <<txid, action[2], NullKeyID>>)
               ELSE relations
    IN  [view |-> [v1 EXCEPT !.dbRelationId = WriteBatch(@, BatchWrites(action, poc21)),
                             !.dbActive = MapPut(@, height, rel)],
         relations |-> rel, ok |-> batchOk]

\* CRelationView::AcceptAction.  batchOk: does WriteBatch succeed.  The
\* result is [view, relations, ok]; ok is the value AcceptAction returns.
AcceptAction(v, height, txid, action, relations, poc21, batchOk) ==
    LET v1 == IF IsBind(action) THEN ApplyBind(v, height, action[2], action[3], poc21)
              ELSE IF IsUnbind(action) THEN ApplyUnbind(v, height, action[2], poc21)
              ELSE v
        rel == IF IsBind(action) THEN Append(relations, <<txid, action[2], action[3]>>)
               ELSE IF IsUnbind(action)
                    THEN Append(relations, <<txid, action[2], NullKeyID>>)
               ELSE relations
        v2 == IF batchOk
              THEN [v1 EXCEPT !.dbRelationId = WriteBatch(@, BatchWrites(action, poc21))]
              ELSE v1
    IN  [view |-> v2, relations |-> rel, ok |-> batchOk]

\* CRelationView::WriteRelationsToDisk.  The result is [view, ok].
WriteRelationsToDisk(v, height, relations, writeOk) ==
    [view |-> IF writeOk THEN [v EXCEPT !.dbActive = MapPut(@, height, relations)] ELSE v,
     ok   |-> writeOk]

RECURSIVE ConnectLoop(_, _, _, _, _, _, _)
\* The rest of the loop of ConnectBlock after AcceptAction returned r for
\* transaction i.
AfterAccept(r, height, blk, i, poc21, fails) ==
    [ConnectLoop(r.view, height, blk, i + 1, r.relations, poc21, fails)
        EXCEPT !.failed = @ \/ ~r.ok]

\* One turn of the loop of ConnectBlock: tx is transaction i of the block, d
\* what DecodeAction returned for it, verified what VerifyAction says of d.
ConnectTx(tx, d, verified, v, height, blk, i, relations, poc21, fails) ==
    IF d.threw
    THEN [view |-> v, relations |-> relations, threw |-> TRUE, failed |-> FALSE]
    ELSE IF ~IsNil(d.action) /\ verified
    THEN AfterAccept(AcceptAction(v, height, tx.hash, d.action, relations, poc21,
                                  i \notin fails),
                     height, blk, i, poc21, fails)
    ELSE ConnectLoop(v, height, blk, i + 1, relations, poc21, fails)

\* The loop of ConnectBlock over blk.vtx, from transaction i on; blk gives the
\* pool index of each transaction.  fails is the set of the store writes that
\* fail: i for the batch of transaction i, 0 for the undo-log entry.  The
\* result is [view, relations, threw, failed]: threw when DecodeAction raised
\* (the exception leaves the loop), failed when some AcceptAction returned false.
ConnectLoop(v, height, blk, i, relations, poc21, fails) ==
    IF i > Len(blk)
    THEN [view |-> v, relations |-> relations, threw |-> FALSE, failed |-> FALSE]
    ELSE ConnectTx(TxPool[blk[i]], DecodeActionOf[blk[i]], VerifiedOf[blk[i]],
                   v, height, blk, i, relations, poc21, fails)

\* A ConnectEnd that keeps the write whatever the loop accepted.
ConnectEnd_AlwaysWrite(l, w) ==
    IF l.threw
    THEN [view |-> l.view, ret |-> "exception", ioFailed |-> l.failed,
          relations |-> l.relations]
    ELSE [view |-> w.view, ret |-> "void", ioFailed |-> l.failed \/ ~w.ok,
          relations |-> l.relations]

\* The end of ConnectBlock: l is what the loop left, w what
\* WriteRelationsToDisk returned for it.
ConnectEnd(l, w) ==
    IF l.threw
    THEN [view |-> l.view, ret |-> "exception", ioFailed |-> l.failed,
          relations |-> l.relations]
    ELSE IF Len(l.relations) > 0
    THEN [view |-> w.view, ret |-> "void", ioFailed |-> l.failed \/ ~w.ok,
          relations |-> l.relations]
    ELSE [view |-> l.view, ret |-> "void", ioFailed |-> l.failed,
          relations |-> l.relations]

\* The write of the undo-log entry ConnectBlock makes after the loop left l.
ConnectWrite(l, height, fails) ==
    ConnectEnd(l, WriteRelationsToDisk(l.view, height, l.relations, 0 \notin fails))

\* CRelationView::ConnectBlock.  The result is [view, ret, ioFailed,
\* relations]: ret is what the caller gets ("void", or "exception" when the
\* call is left by an exception), ioFailed whether a store write failed,
\* relations the changes the call accepted.
ConnectBlock(v, height, blk, poc21, fails) ==
    ConnectWrite(ConnectLoop(v, height, blk, 1, <<>>, poc21, fails), height, fails)


\* A removeRelationHistory that clears the tip where it should restore the
\* previous relation.
removeRelationHistory_NoRestore(v, height, from, poc21) ==
    LET old == v.relationsHistoryMap[from]
        personalRelationList == [h \in {g \in DOMAIN old : ~(g >= height)} |-> old[h]]
        cleared == [v EXCEPT !.relationTip = IF ~poc21 THEN MapErase(@, GetPlotID(from))
                                             ELSE @,
                             !.relationKeyIDTip = MapErase(@, from)]
    IN  IF DOMAIN personalRelationList = {}
        THEN [cleared EXCEPT !.relationsHistoryMap = MapErase(@, from)]
        ELSE [cleared EXCEPT !.relationsHistoryMap = MapPut(@, from, personalRelationList)]

\* A removeRelationHistory that keeps the emptied list of from in the map.
removeRelationHistory_KeepEmpty(v, height, from, poc21) ==
    LET old == v.relationsHistoryMap[from]
        personalRelationList == [h \in {g \in DOMAIN old : ~(g >= height)} |-> old[h]]
    IN  IF DOMAIN personalRelationList = {}
        THEN [v EXCEPT !.relationsHistoryMap = MapPut(@, from, personalRelationList),
                       !.relationTip = IF ~poc21 THEN MapErase(@, GetPlotID(from)) ELSE @,
                       !.relationKeyIDTip = MapErase(@, from)]
        ELSE LET prev == DOMAIN personalRelationList
                 to == personalRelationList[CHOOSE h \in prev : \A g \in prev : g <= h]
             IN  [v EXCEPT !.relationsHistoryMap = MapPut(@, from, personalRelationList),
                           !.relationTip = IF ~poc21
                                           THEN MapPut(@, GetPlotID(from), GetPlotID(to))
                                           ELSE @,
                           !.relationKeyIDTip = MapPut(@, from, to)]

\* CRelationView::removeRelationHistory
removeRelationHistory(v, height, from, poc21) ==
    LET old == v.relationsHistoryMap[from]
        personalRelationList == [h \in {g \in DOMAIN old : ~(g >= height)} |-> old[h]]
        \* find_if over the entries sorted by declining height
        prev == {h \in DOMAIN personalRelationList : height > h}
    IN  IF DOMAIN personalRelationList = {}
        THEN [v EXCEPT !.relationsHistoryMap = MapErase(@, from),
                       !.relationTip = IF ~poc21 THEN MapErase(@, GetPlotID(from)) ELSE @,
                       !.relationKeyIDTip = MapErase(@, from)]
        ELSE IF prev = {}
        THEN [v EXCEPT !.relationsHistoryMap = MapPut(@, from, personalRelationList),
                       !.relationTip = IF ~poc21 THEN MapErase(@, GetPlotID(from)) ELSE @,
                       !.relationKeyIDTip = MapErase(@, from)]
        ELSE LET to == personalRelationList[
                          CHOOSE h \in prev : \A g \in prev : g <= h]
             IN  [v EXCEPT !.relationsHistoryMap = MapPut(@, from, personalRelationList),
                           !.relationTip = IF ~poc21
                                           THEN MapPut(@, GetPlotID(from), GetPlotID(to))
                                           ELSE @,
                           !.relationKeyIDTip = MapPut(@, from, to)]

RECURSIVE SortedKeys(_)
\* The keys of a std::map in iteration order.
SortedKeys(S) ==
    IF S = {} THEN <<>>
    ELSE LET m == CHOOSE x \in S : \A y \in S : x <= y
         IN  <<m>> \o SortedKeys(S \ {m})

\* What the loop of DisconnectBlock does once removeRelationHistory has erased
\* the map element its iterator points at (relationsHistoryMap.erase(from)).
\* Advancing that iterator is undefined: the loop goes on at the next
\* element, or it misses the next element.
IteratorOutcomes == {"next", "skip"}

\* The keys left to visit after the element at the head of keys was erased.
AfterErase(keys, ub) ==
    IF ub = "skip" /\ Len(keys) > 1 THEN Tail(Tail(keys)) ELSE Tail(keys)

RECURSIVE DisconnectLoop_All(_, _, _, _, _)
\* A loop of DisconnectBlock that recomputes every identity of the map.
DisconnectLoop_All(v, height, keys, poc21, ub) ==
    IF keys = <<>> THEN v
    ELSE DisconnectLoop_All(removeRelationHistory(v, height, Head(keys), poc21),
                            height, Tail(keys), poc21, ub)

RECURSIVE DisconnectLoop(_, _, _, _, _)
\* The loop "for (auto historyEntry : relationsHistoryMap)" of DisconnectBlock
\* over the keys still to visit.
DisconnectLoop(v, height, keys, poc21, ub) ==
    IF keys = <<>> THEN v
    ELSE LET from == Head(keys)
         IN  IF HasKey(v.relationsHistoryMap[from], height)
             THEN LET v1 == removeRelationHistory(v, height, from, poc21)
                  IN  IF ~HasKey(v1.relationsHistoryMap, from)
                      THEN DisconnectLoop(v1, height, AfterErase(keys, ub), poc21, ub)
                      ELSE DisconnectLoop(v1, height, Tail(keys), poc21, ub)
             ELSE DisconnectLoop(v, height, Tail(keys), poc21, ub)

\* A DisconnectBlock that also erases the registry records.
DisconnectBlock_DropRegistry(v, height, poc21, eraseOk, ub) ==
    LET v1 == [v EXCEPT !.dbActive = MapErase(@, height), !.dbRelationId = EmptyMap]
    IN  [view |-> DisconnectLoop(v1, height, SortedKeys(DOMAIN v1.relationsHistoryMap),
                                 poc21, ub),
         ret |-> "void",
         ioFailed |-> ~eraseOk]

\* CRelationView::DisconnectBlock.  eraseOk: does Erase succeed.  The result
\* is [view, ret, ioFailed].
DisconnectBlock(v, height, poc21, eraseOk, ub) ==
    LET v1 == IF eraseOk THEN [v EXCEPT !.dbActive = MapErase(@, height)] ELSE v
    IN  [view |-> DisconnectLoop(v1, height, SortedKeys(DOMAIN v1.relationsHistoryMap),
                                 poc21, ub),
         ret |-> "void",
         ioFailed |-> ~eraseOk]

RECURSIVE LoadLoop(_, _, _, _, _)
\* The loop of LoadRelationFromDisk over the stored relations.
LoadLoop(v, height, relations, i, poc21) ==
    IF i > Len(relations) THEN v
    ELSE LET from == relations[i][2]
             to   == relations[i][3]
         IN  LoadLoop(IF to # NullKeyID THEN ApplyBind(v, height, from, to, poc21)
                      ELSE ApplyUnbind(v, height, from, poc21),
                      height, relations, i + 1, poc21)

\* CRelationView::LoadRelationFromDisk.  readOk: does Read succeed.  The
\* result is [view, ret].
LoadRelationFromDisk(v, height, poc21, readOk) ==
    IF HasKey(v.dbActive, height)
    THEN IF ~readOk THEN [view |-> v, ret |-> FALSE]
         ELSE [view |-> LoadLoop(v, height, v.dbActive[height], 1, poc21), ret |-> TRUE]
    ELSE [view |-> v, ret |-> TRUE]

\* CRelationView::To.  readOk: does the Read of the registry succeed.
To(v, from, plotid, poc21, readOk) ==
    IF poc21
    THEN IF HasKey(v.relationKeyIDTip, from) THEN v.relationKeyIDTip[from] ELSE NullKeyID
    ELSE IF HasKey(v.relationTip, plotid)
         THEN IF readOk /\ HasKey(v.dbRelationId, v.relationTip[plotid])
              THEN v.dbRelationId[v.relationTip[plotid]]
              ELSE NullKeyID
         ELSE NullKeyID

\* CRelationView::ListRelations, as the set of the pairs it returns.
ListRelations(v) == {<<from, v.relationKeyIDTip[from]>> : from \in DOMAIN v.relationKeyIDTip}

(***************************************************************************)
(* The state machine: one CRelationView and its store, driven by the chain *)
(* processing, which connects a block on top of the chain, disconnects the *)
(* block on top of it, and after a restart replays the stored heights from *)
(* the lowest up.  The driver runs the heights below poc21Height in legacy *)
(* mode (poc21 = false) and the heights from it on with poc21 = true.      *)
(***************************************************************************)
VARIABLES
    relationKeyIDTip,     \* CRelationView::relationKeyIDTip
    relationTip,          \* CRelationView::relationTip
    relationsHistoryMap,  \* CRelationView::relationsHistoryMap
    dbActive,             \* the store, keys (DB_ACTIVE_ACTION_KEY, height)
    dbRelationId,         \* the store, keys (DB_RELATIONID, plot id)
    chainHeight,          \* the driver: height of the block on top of the chain
    loadedHeight,         \* the driver: the heights up to it are in memory
    poc21Height,          \* the driver: the first height run with poc21 = true
    probe,                \* the last call of the action codec and its result
    blockAt               \* the driver: the block last passed to ConnectBlock at a
                          \* height, as the runs of SpecLog and SpecCrash record it

vars == <<relationKeyIDTip, relationTip, relationsHistoryMap, dbActive, dbRelationId,
          chainHeight, loadedHeight, poc21Height, probe, blockAt>>

\* The view the variables hold.
View ==
    [relationKeyIDTip    |-> relationKeyIDTip,
     relationTip         |-> relationTip,
     relationsHistoryMap |-> relationsHistoryMap,
     dbActive            |-> dbActive,
     dbRelationId        |-> dbRelationId]

SetView(v) ==
    /\ relationKeyIDTip' = v.relationKeyIDTip
    /\ relationTip' = v.relationTip
    /\ relationsHistoryMap' = v.relationsHistoryMap
    /\ dbActive' = v.dbActive
    /\ dbRelationId' = v.dbRelationId

\* The mode the driver runs a height in.
Poc21At(height) == height >= poc21Height

\* The blocks over a set of pool indices.
BlocksOver(ids) == UNION {[1..n -> ids] : n \in 0..MaxBlockTx}

NoProbe == [op |-> "none"]

\* CRelationView::CRelationView: the maps are empty; so is a fresh store.
InitView ==
    /\ relationKeyIDTip = EmptyMap
    /\ relationTip = EmptyMap
    /\ relationsHistoryMap = EmptyMap
    /\ dbActive = EmptyMap
    /\ dbRelationId = EmptyMap
    /\ chainHeight = -1
    /\ loadedHeight = -1
    /\ blockAt = EmptyMap

Init ==
    /\ InitView
    /\ poc21Height \in {0, 1, MaxHeight + 1}
    /\ probe = NoProbe

\* The state after a ConnectBlock on top of the chain that returned r.
Connected(r) ==
    /\ SetView(r.view)
    /\ chainHeight' = IF r.ret = "exception" THEN chainHeight ELSE chainHeight + 1
    /\ loadedHeight' = chainHeight'

\* The driver connects blk on top of the chain: ConnectBlock(height, blk, poc21).
\* A call left by an exception does not advance the chain.
ConnectOnTop(blk, fails) ==
    /\ loadedHeight = chainHeight
    /\ chainHeight < MaxHeight
    /\ Connected(ConnectBlock(View, chainHeight + 1, blk, Poc21At(chainHeight + 1), fails))
    /\ UNCHANGED <<poc21Height, probe>>

DoConnectBlock(blk, fails) == ConnectOnTop(blk, fails) /\ UNCHANGED blockAt

\* The driver disconnects the block on top: DisconnectBlock(height, blk, poc21).
DisconnectTop(eraseOk, ub) ==
    /\ loadedHeight = chainHeight
    /\ chainHeight >= 0
    /\ SetView(DisconnectBlock(View, chainHeight, Poc21At(chainHeight), eraseOk, ub).view)
    /\ chainHeight' = chainHeight - 1
    /\ loadedHeight' = chainHeight'
    /\ UNCHANGED <<poc21Height, probe>>

DoDisconnectBlock(eraseOk, ub) == DisconnectTop(eraseOk, ub) /\ UNCHANGED blockAt

\* The process restarts: a new CRelationView over the store as it is.
DoRestart ==
    /\ chainHeight >= 0
    /\ relationKeyIDTip' = EmptyMap
    /\ relationTip' = EmptyMap
    /\ relationsHistoryMap' = EmptyMap
    /\ loadedHeight' = -1
    /\ UNCHANGED <<dbActive, dbRelationId, chainHeight, poc21Height, probe, blockAt>>

\* The state after a LoadRelationFromDisk of the next height that returned r.
Loaded(r) ==
    /\ SetView(r.view)
    /\ loadedHeight' = IF r.ret THEN loadedHeight + 1 ELSE loadedHeight

\* The driver replays the next height: LoadRelationFromDisk(height, poc21).
\* A failed Read leaves the height to be replayed again.
DoLoadRelationFromDisk(readOk) ==
    /\ loadedHeight < chainHeight
    /\ Loaded(LoadRelationFromDisk(View, loadedHeight + 1, Poc21At(loadedHeight + 1),
                                   readOk))
    /\ UNCHANGED <<chainHeight, poc21Height, probe, blockAt>>

\* The pool indices the blocks of Spec are made of.
SpecTxIds == {1, 2, 3, 6}

Connect == \E blk \in BlocksOver(SpecTxIds) : DoConnectBlock(blk, {})

Disconnect == \E ub \in IteratorOutcomes : DoDisconnectBlock(TRUE, ub)

Restart == DoRestart

Load == DoLoadRelationFromDisk(TRUE)

Next == Connect \/ Disconnect \/ Restart \/ Load

\* The relation view under the chain processing, the store never failing.
Spec == Init /\ [][Next]_vars

\* The pool indices of the well-formed, correctly signed actions of SpecReorg.
ReorgTxIds == {1, 2, 3}

ConnectReorg == \E blk \in BlocksOver(ReorgTxIds) : DoConnectBlock(blk, {})

DisconnectReorg == DoDisconnectBlock(TRUE, "next")

NextReorg == ConnectReorg \/ DisconnectReorg

\* Connects and disconnects alone, every block made of well-formed actions,
\* the store never failing and the loop of DisconnectBlock never missing an
\* element: the runs in which nothing but the ledger logic decides the state.
SpecReorg == Init /\ [][NextReorg]_vars

\* The pool indices of the blocks of SpecLog: a bind, an unbind and a bind
\* that pays the wrong fee.
LogTxIds == {1, 2, 6}

\* The driver connects blk on top of the chain and the run records it.
DoConnectLogged(blk) ==
    /\ ConnectOnTop(blk, {})
    /\ blockAt' = IF chainHeight' = chainHeight THEN blockAt
                  ELSE MapPut(blockAt, chainHeight + 1, blk)

\* The driver disconnects the block on top and the run forgets it.
DoDisconnectLogged(ub) ==
    /\ DisconnectTop(TRUE, ub)
    /\ blockAt' = MapErase(blockAt, chainHeight)

ConnectLog == \E blk \in BlocksOver(LogTxIds) : DoConnectLogged(blk)

DisconnectLog == \E ub \in IteratorOutcomes : DoDisconnectLogged(ub)

NextLog == ConnectLog \/ DisconnectLog

\* Connects and disconnects with every write successful, the blocks recorded.
SpecLog == Init /\ [][NextLog]_vars

\* The store a ConnectBlock leaves that stopped where the loop had left l:
\* before the write of the undo-log entry, or after it.
CrashStore(l, height, wrote) ==
    IF wrote THEN ConnectWrite(l, height, {}).view ELSE l.view

\* The state after the process stopped in ConnectBlock with the store as in v
\* and started again: the maps of a new CRelationView are empty.
Crashed(v) ==
    /\ dbActive' = v.dbActive
    /\ dbRelationId' = v.dbRelationId
    /\ relationKeyIDTip' = EmptyMap
    /\ relationTip' = EmptyMap
    /\ relationsHistoryMap' = EmptyMap
    /\ loadedHeight' = -1

\* The process stops during ConnectBlock(height, blk, poc21) on top of the
\* chain, after k turns of the loop, or with wrote after the loop and the
\* write of the undo-log entry; the block is not connected.
DoCrashInConnect(blk, k, wrote) ==
    /\ loadedHeight = chainHeight
    /\ chainHeight < MaxHeight
    /\ wrote => k = Len(blk)
    /\ Crashed(CrashStore(ConnectLoop(View, chainHeight + 1, SubSeq(blk, 1, k), 1, <<>>,
                                      Poc21At(chainHeight + 1), {}),
                          chainHeight + 1, wrote))
    /\ blockAt' = MapPut(blockAt, chainHeight + 1, blk)
    /\ UNCHANGED <<chainHeight, poc21Height, probe>>

\* The blocks of SpecCrash: one with no transaction, one with a bind, one
\* with a bind and an unbind.
CrashBlocks == {<<>>, <<1>>, <<1, 2>>}

ConnectCrash == \E blk \in CrashBlocks : DoConnectLogged(blk)

Crash ==
    \E blk \in CrashBlocks, wrote \in BOOLEAN :
        \E k \in 0..Len(blk) : DoCrashInConnect(blk, k, wrote)

NextCrash == ConnectCrash \/ DisconnectLog \/ Crash \/ Load

\* Connects and disconnects, the process stopping at any point of a
\* ConnectBlock and replaying the stored heights after it started again.
SpecCrash == Init /\ [][NextCrash]_vars

(***************************************************************************)
(* The action codec called on its own: a payload is signed for (out,       *)
(* action) with key, and its signature is verified for (vout, vaction).    *)
(***************************************************************************)
ProbeActions ==
    {MakeBindAction(a, b) : a \in KeyIDs, b \in KeyIDs} \cup
    {MakeUnbindAction(a) : a \in KeyIDs}
ProbeOutPoints == {OutPoint(1, 0), OutPoint(2, 0), OutPoint(1, 1)}

\* The signature bytes of a payload SignAction built.
SigOf(vch) == SubSeq(vch, Len(vch) - SigLen + 1, Len(vch))

DoSignVerify(out, action, key, vout, vaction) ==
    /\ probe = NoProbe
    /\ probe' = [op |-> "VerifyAction", out |-> out, action |-> action, key |-> key,
                 vout |-> vout, vaction |-> vaction,
                 result |-> VerifyAction(vout, vaction,
                                         SigOf(SignAction(out, action, key)))]
    /\ UNCHANGED <<relationKeyIDTip, relationTip, relationsHistoryMap, dbActive,
                   dbRelationId, chainHeight, loadedHeight, poc21Height, blockAt>>

SignVerify ==
    \E out \in ProbeOutPoints, action \in ProbeActions, key \in Keys,
       vout \in ProbeOutPoints, vaction \in ProbeActions \cup {NilAction} :
        DoSignVerify(out, action, key, vout, vaction)

\* An action is serialized and the bytes are unserialized.
DoRoundTrip(action) ==
    /\ probe = NoProbe
    /\ probe' = [op |-> "RoundTrip", action |-> action, vch |-> SerializeAction(action),
                 result |-> UnserializeAction(SerializeAction(action))]
    /\ UNCHANGED <<relationKeyIDTip, relationTip, relationsHistoryMap, dbActive,
                   dbRelationId, chainHeight, loadedHeight, poc21Height, blockAt>>

RoundTrip == \E action \in ProbeActions \cup {NilAction} : DoRoundTrip(action)

\* The byte strings UnserializeAction is called on: the empty string, strings
\* shorter than the discriminant, unknown discriminants, a Bind and an Unbind
\* discriminant with too few field bytes, and whole encodings.
ProbeBytes ==
    {<<>>, <<1>>, <<1, 0, 0>>, LE(0, IntLen), LE(9, IntLen), LE(-1, IntLen),
     LE(3, IntLen) \o Zeros(2 * KeyIDLen),
     LE(1, IntLen), LE(1, IntLen) \o Zeros(KeyIDLen), LE(1, IntLen) \o Zeros(2 * KeyIDLen - 1),
     LE(2, IntLen), LE(2, IntLen) \o Zeros(KeyIDLen - 1),
     SerializeAction(MakeBindAction(1, 2)), SerializeAction(MakeUnbindAction(2)),
     SerializeAction(MakeBindAction(1, 2)) \o <<7>>}

\* UnserializeAction is called on a byte string.
DoUnserializeAction(vch) ==
    /\ probe = NoProbe
    /\ probe' = [op |-> "UnserializeAction", vch |-> vch, result |-> UnserializeAction(vch)]
    /\ UNCHANGED <<relationKeyIDTip, relationTip, relationsHistoryMap, dbActive,
                   dbRelationId, chainHeight, loadedHeight, poc21Height, blockAt>>

Unserialize == \E vch \in ProbeBytes : DoUnserializeAction(vch)

\* DecodeAction is called on the transaction i of the pool.
DoDecodeAction(i) ==
    /\ probe = NoProbe
    /\ probe' = [op |-> "DecodeAction", tx |-> i, result |-> DecodeActionOf[i]]
    /\ UNCHANGED <<relationKeyIDTip, relationTip, relationsHistoryMap, dbActive,
                   dbRelationId, chainHeight, loadedHeight, poc21Height, blockAt>>

Decode == \E i \in TxIds : DoDecodeAction(i)

InitCodec == InitView /\ poc21Height = 0 /\ probe = NoProbe

NextCodec == SignVerify \/ RoundTrip \/ Unserialize \/ Decode

SpecCodec == InitCodec /\ [][NextCodec]_vars

(***************************************************************************)
(* Properties.                                                             *)
(***************************************************************************)
\* The three in-memory maps of a view.
Mem(v) == <<v.relationKeyIDTip, v.relationTip, v.relationsHistoryMap>>

\* The heights some identity of the view has a history entry at.
RecordedHeights(v) ==
    UNION {DOMAIN v.relationsHistoryMap[from] : from \in DOMAIN v.relationsHistoryMap}

\* The heights above every height recorded in the view.
HeightsAbove(v) == {h \in Heights : \A g \in RecordedHeights(v) : h > g}

\* Resolve(from, legacy mode): To with the plot id of from, the store readable.
Resolve(v, from, poc21) == To(v, from, GetPlotID(from), poc21, TRUE)

\* The target of the highest-height history entry of from.
LatestTarget(v, from) ==
    LET list == v.relationsHistoryMap[from]
    IN  list[CHOOSE h \in DOMAIN list : \A g \in DOMAIN list : g <= h]

\* The memory a fresh view gets by LoadRelationFromDisk of the heights
\* 0..MaxHeight in order, over the store of v.
RECURSIVE ReplayFrom(_, _)
ReplayFrom(v, height) ==
    IF height > MaxHeight THEN v
    ELSE ReplayFrom(LoadRelationFromDisk(v, height, Poc21At(height), TRUE).view, height + 1)

Replayed(v) ==
    ReplayFrom([v EXCEPT !.relationKeyIDTip = EmptyMap, !.relationTip = EmptyMap,
                         !.relationsHistoryMap = EmptyMap], 0)

\* C1: connect and disconnect are an inverse pair.  From a state reached by
\* connects and disconnects, connecting one or two blocks at increasing
\* heights above every recorded height and disconnecting them in reverse
\* order, all in the mode of those heights, gives back the three maps
\* exactly.  (Stated for the runs in which the loop of DisconnectBlock visits
\* every element.)
C1_InversePair ==
    \A h1 \in HeightsAbove(View), b1 \in BlocksOver(ReorgTxIds) :
        LET poc21 == Poc21At(h1)
            s1 == ConnectBlock(View, h1, b1, poc21, {}).view
        IN  /\ Mem(DisconnectBlock(s1, h1, poc21, TRUE, "next").view) = Mem(View)
            /\ \A h2 \in {h \in Heights : h > h1 /\ Poc21At(h) = poc21},
                  b2 \in BlocksOver(ReorgTxIds) :
                   LET s2 == ConnectBlock(s1, h2, b2, poc21, {}).view
                       d2 == DisconnectBlock(s2, h2, poc21, TRUE, "next").view
                   IN  Mem(DisconnectBlock(d2, h1, poc21, TRUE, "next").view) = Mem(View)

\* C2: invariant I1.  relationKeyIDTip has from -> to exactly when the
\* highest-height history entry of from is a bind to to, and no entry for
\* from when that entry is an unbind or from has no history.
C2_I1 ==
    \A from \in KeyIDs :
        IF HasKey(relationsHistoryMap, from) /\ LatestTarget(View, from) # NullKeyID
        THEN HasKey(relationKeyIDTip, from)
             /\ relationKeyIDTip[from] = LatestTarget(View, from)
        ELSE ~HasKey(relationKeyIDTip, from)

\* C5: the memory is a cache over the undo log.  Replaying the stored
\* heights from 0 upward into an empty view gives the three maps the running
\* view holds.
C5_CacheOverLog ==
    loadedHeight = chainHeight => Mem(Replayed(View)) = Mem(View)

\* The pairs <<bind, unbind>> of pool transactions of the scenario of C3,
\* each with the identity A that signs both and the target B.
ScenarioTxs == {<<1, 2, 1, 2>>, <<3, 4, 2, 1>>, <<18, 4, 2, ForeignKeyID>>}

LoadTxIds == {1, 2, 3, 5, 18}

\* C4: LoadRelationFromDisk is ConnectBlock without the signature checks.
\* From any prior memory, over the undo-log entry ConnectBlock wrote for a
\* height, LoadRelationFromDisk gives the three maps ConnectBlock gave.
C4_LoadIsConnect ==
    \A h \in HeightsAbove(View), blk \in BlocksOver(LoadTxIds) :
        LET c == ConnectBlock(View, h, blk, Poc21At(h), {})
            l == LoadRelationFromDisk([View EXCEPT !.dbActive = c.view.dbActive],
                                      h, Poc21At(h), TRUE)
        IN  (c.ret = "void" /\ c.relations # <<>>) =>
                l.ret /\ Mem(l.view) = Mem(c.view)

\* The sets of store writes of a ConnectBlock that can fail.
FailSets == SUBSET (0..MaxBlockTx)

\* C6: a persistence failure is surfaced.  A ConnectBlock in which a store
\* write failed, and a DisconnectBlock whose erase failed, return a failure
\* to the caller.
C6_FailureSurfaced ==
    /\ \A h \in HeightsAbove(View), blk \in BlocksOver(ReorgTxIds), fails \in FailSets :
           LET c == ConnectBlock(View, h, blk, Poc21At(h), fails)
           IN  c.ioFailed => c.ret = "failure"
    /\ \A h \in Heights : \A ub \in IteratorOutcomes :
           LET d == DisconnectBlock(View, h, Poc21At(h), FALSE, ub)
           IN  d.ioFailed => d.ret = "failure"

\* The sum of the input values minus the total output value of the pool
\* transaction i.
PaidFee == [i \in TxIds |-> SumInputs(TxPool[i].vin) - GetValueOut(TxPool[i])]

\* The blocks of C7: correctly signed actions that pay the fee (1, 2), one
\* unit more (6) and one unit less (7).
FeeTxIds == {1, 2, 6, 7}

\* blk without the transactions that do not pay exactly the action fee.
FeePaying(blk) == SelectSeq(blk, LAMBDA i : PaidFee[i] = nActionFee)

\* C7: the fee gate.  A transaction of the right shape whose fee differs from
\* the action fee decodes to Nil, and ConnectBlock gives the maps, the
\* registry and the undo log it gives for the block without such
\* transactions: the view is unchanged when the block holds no other.
C7_FeeGate ==
    /\ \A i \in TxIds :
           (ShapeOk(TxPool[i]) /\ PaidFee[i] # nActionFee) =>
               (DecodeActionOf[i].action = NilAction /\ ~DecodeActionOf[i].threw)
    /\ \A h \in HeightsAbove(View), blk \in BlocksOver(FeeTxIds) :
           LET c == ConnectBlock(View, h, blk, Poc21At(h), {})
               e == ConnectBlock(View, h, FeePaying(blk), Poc21At(h), {})
           IN  /\ c = e
               /\ FeePaying(blk) = <<>> => c.view = View

\* C7 witness: identity 1 has a delegation, transaction 6 carries a bind of
\* identity 2 that VerifyAction accepts for the coin it spends, it pays one
\* unit too much, and connecting it changes nothing.
C7_Witness ==
    /\ HasKey(relationKeyIDTip, 1)
    /\ ~HasKey(relationsHistoryMap, 2)
    /\ chainHeight = 0
    /\ PaidFee[6] = nActionFee + 1
    /\ LET a == UnserializeAction(CarrierPayload(TxPool[6].vout[1].scriptPubKey))
       IN  /\ a = MakeBindAction(2, 1)
           /\ VerifyAction(TxPool[6].vin[1], a,
                           SigOf(CarrierPayload(TxPool[6].vout[1].scriptPubKey)))
    /\ ConnectBlock(View, 1, <<6>>, Poc21At(1), {}).view = View

\* The blocks of C8: actions that pass (1, 3), a bad signature (8), a payload
\* shorter than an action (10), a payload shorter than a signature (11) and a
\* wrong shape (15).
MalformedTxIds == {1, 3, 8, 10, 11, 15}

\* Does the pool transaction i carry a signed action: its carrier payload
\* holds an action and a signature made for that action and the coin the
\* transaction spends by the key of the action's from.
Passes ==
    [i \in TxIds |->
        LET tx == TxPool[i]
        IN  /\ ShapeOk(tx)
            /\ PaidFee[i] = nActionFee
            /\ \E j \in 1..Len(tx.vout) :
                   /\ tx.vout[j].nValue = 0
                   /\ GetOp(tx.vout[j].scriptPubKey, 1)
                   /\ tx.vout[j].scriptPubKey[1].opcode = "OP_RETURN"
                   /\ \E a \in ProbeActions, k \in Keys :
                          /\ a[2] = GetID(k)
                          /\ CarrierPayload(tx.vout[j].scriptPubKey)
                                 = SignAction(tx.vin[1], a, k)]

\* The change ConnectBlock records for the transaction i.
RelationOf(i) ==
    LET a == DecodeActionOf[i].action
    IN  <<TxPool[i].hash, a[2], IF IsBind(a) THEN a[3] ELSE NullKeyID>>

RECURSIVE ChangesOf(_)
\* The changes of the transactions of blk that pass, in transaction order.
ChangesOf(blk) ==
    IF blk = <<>> THEN <<>>
    ELSE IF Passes[Head(blk)] THEN <<RelationOf(Head(blk))>> \o ChangesOf(Tail(blk))
    ELSE ChangesOf(Tail(blk))

\* C8: malformed input never aborts block processing.  ConnectBlock returns
\* normally for every block, and the changes it accepted are those of the
\* transactions that pass extraction and verification, in transaction order.
C8_NeverAborts ==
    \A h \in HeightsAbove(View), blk \in BlocksOver(MalformedTxIds) :
        LET c == ConnectBlock(View, h, blk, Poc21At(h), {})
        IN  /\ c.ret # "exception"
            /\ c.relations = ChangesOf(blk)

\* C9: sign/verify.  The signature SignAction makes for (out, action) with
\* key verifies for (vout, vaction) exactly when vout = out, vaction = action
\* and the from of action is the identity of key.
C9_SignVerify ==
    probe.op = "VerifyAction" =>
        (probe.result <=>
            /\ probe.vout = probe.out
            /\ probe.vaction = probe.action
            /\ probe.action[2] = GetID(probe.key))

\* C9 witness: a signature by the owner of from was verified and accepted.
C9_Witness ==
    /\ probe.op = "VerifyAction"
    /\ probe.result
    /\ IsBind(probe.action)
    /\ probe.action[2] = GetID(probe.key)

\* The blocks of C10: signed by the owner of from (1, 2), signed by another
\* key (8), signed for another outpoint (9), a Nil action with a signature
\* (12).
AuthTxIds == {1, 2, 8, 9, 12}

\* Is the decoded action of the pool transaction i a Bind or an Unbind whose
\* signature recovers, over the digest for the previous outpoint of the first
\* input, to the key of its from.
Authentic ==
    [i \in TxIds |->
        LET d == DecodeActionOf[i]
        IN  /\ ~d.threw
            /\ IsBind(d.action) \/ IsUnbind(d.action)
            /\ LET pubkey == RecoverCompact(ActionDigest(TxPool[i].vin[1], d.action),
                                            d.vchSig)
               IN  pubkey # NoPubKey /\ GetID(pubkey) = d.action[2]]

\* VerifyAction rejects the Nil action for the coin and under the signature
\* of every transaction of the pool.
NilRejected ==
    \A i \in TxIds :
        (TxPool[i].vin # <<>> /\ ~DecodeActionOf[i].threw) =>
            ~VerifyAction(TxPool[i].vin[1], NilAction, DecodeActionOf[i].vchSig)

\* C10: only authenticated Bind/Unbind actions mutate the ledger.  The
\* changes ConnectBlock accepts into the maps and the undo log are those of
\* the transactions whose action is authentic; a block with none changes
\* nothing; VerifyAction rejects a Nil action under every signature.
C10_OnlyAuthenticated ==
    /\ \A h \in HeightsAbove(View), blk \in BlocksOver(AuthTxIds) :
           LET c    == ConnectBlock(View, h, blk, Poc21At(h), {})
               auth == SelectSeq(blk, LAMBDA i : Authentic[i])
           IN  /\ c.relations = [j \in 1..Len(auth) |-> RelationOf(auth[j])]
               /\ c.view = ConnectBlock(View, h, auth, Poc21At(h), {}).view
               /\ auth = <<>> => c.view = View
    /\ NilRejected

\* C10 witness: a delegation is live, and a block of a bind signed by another
\* key, a replayed signature and a signed Nil payload leaves the view as it is.
C10_Witness ==
    /\ HasKey(relationKeyIDTip, 1)
    /\ chainHeight = 0
    /\ ~Authentic[8] /\ ~Authentic[9] /\ ~Authentic[12]
    /\ IsBind(DecodeActionOf[8].action) /\ IsBind(DecodeActionOf[9].action)
    /\ ConnectBlock(View, 1, <<8, 9>>, Poc21At(1), {}).view = View
    /\ ConnectBlock(View, 1, <<12>>, Poc21At(1), {}).view = View

\* C11: the codec round-trip.  For Nil and every Bind and Unbind over the
\* identities, UnserializeAction gives back the action SerializeAction
\* encoded; the encoding starts with the discriminant 1 for a Bind and 2 for
\* an Unbind; two actions with the same bytes are the same action.
C11_RoundTrip ==
    probe.op = "RoundTrip" =>
        /\ probe.result = probe.action
        /\ Len(probe.vch) >= IntLen
        /\ IsBind(probe.action) => ReadInt32(SubSeq(probe.vch, 1, IntLen)) = 1
        /\ IsUnbind(probe.action) => ReadInt32(SubSeq(probe.vch, 1, IntLen)) = 2
        /\ \A other \in ProbeActions \cup {NilAction} :
               (SerializeAction(other) = probe.vch) <=> (other = probe.action)

\* C11 witness: a Bind with a foreign target went through the codec.
C11_Witness ==
    /\ probe.op = "RoundTrip"
    /\ probe.action = MakeBindAction(2, ForeignKeyID)
    /\ probe.result = probe.action

\* Is vch no whole encoding: shorter than the discriminant, an unknown
\* discriminant, or a Bind or Unbind discriminant with too few field bytes.
Malformed(vch) ==
    \/ Len(vch) < IntLen
    \/ LET ty == ReadInt32(SubSeq(vch, 1, IntLen))
       IN  \/ ty \notin {1, 2}
           \/ ty = 1 /\ Len(vch) < IntLen + 2 * KeyIDLen
           \/ ty = 2 /\ Len(vch) < IntLen + KeyIDLen

\* Is the first output of the pool transaction i a zero-value output with a
\* script, the second a payment.
PlainCarrier(i) ==
    /\ Len(TxPool[i].vout) = 2
    /\ TxPool[i].vout[1].nValue = 0
    /\ TxPool[i].vout[2].nValue # 0
    /\ Len(TxPool[i].vout[1].scriptPubKey) >= 1

\* The payload of the first output of the pool transaction i.
PayloadOf(i) == CarrierPayload(TxPool[i].vout[1].scriptPubKey)

\* C12: decoding untrusted bytes never fails.  UnserializeAction returns an
\* action for every byte string, Nil for a malformed one; DecodeAction
\* returns Nil for a transaction whose carrier payload is malformed.
C12_DecodeNeverFails ==
    /\ probe.op = "UnserializeAction" =>
           /\ ~IsFailure(probe.result)
           /\ Malformed(probe.vch) => probe.result = NilAction
    /\ (probe.op = "DecodeAction" /\ PlainCarrier(probe.tx)) =>
           (Malformed(PayloadOf(probe.tx)) =>
               (~probe.result.threw /\ probe.result.action = NilAction))

\* The outputs of tx that can carry an action: zero value, a script that
\* starts with OP_RETURN, a payload of at least SigLen bytes.
Carriers(tx) ==
    {j \in 1..Len(tx.vout) :
        /\ tx.vout[j].nValue = 0
        /\ Len(tx.vout[j].scriptPubKey) >= 1
        /\ tx.vout[j].scriptPubKey[1].opcode = "OP_RETURN"
        /\ Len(CarrierPayload(tx.vout[j].scriptPubKey)) >= SigLen}

\* C13: the extraction shape gate.  DecodeAction returns a Bind or an Unbind
\* only for a transaction that is no coinbase, not null, has two outputs, one
\* of zero value, and a carrier; the signature returned is the last SigLen
\* bytes of the payload of the first carrier, and the action is what the
\* bytes before them decode to.
C13_ShapeGate ==
    (probe.op = "DecodeAction" /\ ~probe.result.threw /\ ~IsNil(probe.result.action)) =>
        LET tx == TxPool[probe.tx]
        IN  /\ ~TxIsCoinBase(tx)
            /\ ~TxIsNull(tx)
            /\ Len(tx.vout) = 2
            /\ \E j \in 1..2 : tx.vout[j].nValue = 0
            /\ Carriers(tx) # {}
            /\ LET j == CHOOSE k \in Carriers(tx) : \A m \in Carriers(tx) : k <= m
                   payload == CarrierPayload(tx.vout[j].scriptPubKey)
               IN  /\ probe.result.vchSig = SigOf(payload)
                   /\ probe.result.action =
                          UnserializeAction(SubSeq(payload, 1, Len(payload) - SigLen))

\* The blocks of C14: a bind and an unbind of identity 1 (1, 2), two binds of
\* identity 2 to different targets (3, 18).
LastWinsTxIds == {1, 2, 3, 18}

\* The indices of the changes of from in the sequence ch of changes.
ChangesFor(ch, from) == {j \in 1..Len(ch) : ch[j][2] = from}

\* The target of the last change of from in ch.
LastTarget(ch, from) ==
    ch[CHOOSE j \in ChangesFor(ch, from) : \A k \in ChangesFor(ch, from) : k <= j][3]

\* C14: within one block the last accepted action of an identity wins.  After
\* ConnectBlock(H) the history of from has at H the target of the last
\* accepted action of from in the block and is otherwise as before, the tip
\* of from is that target, or absent when it was an unbind, and the undo-log
\* entry of H is the accepted changes of the block in transaction order.
C14_LastWins ==
    \A h \in HeightsAbove(View), blk \in BlocksOver(LastWinsTxIds) :
        LET c  == ConnectBlock(View, h, blk, Poc21At(h), {}).view
            ch == ChangesOf(blk)
        IN  /\ ch # <<>> => (HasKey(c.dbActive, h) /\ c.dbActive[h] = ch)
            /\ \A from \in KeyIDs :
                   ChangesFor(ch, from) # {} =>
                       /\ HasKey(c.relationsHistoryMap, from)
                       /\ c.relationsHistoryMap[from] =
                              MapPut(IF HasKey(relationsHistoryMap, from)
                                     THEN relationsHistoryMap[from] ELSE EmptyMap,
                                     h, LastTarget(ch, from))
                       /\ IF LastTarget(ch, from) # NullKeyID
                          THEN /\ HasKey(c.relationKeyIDTip, from)
                               /\ c.relationKeyIDTip[from] = LastTarget(ch, from)
                          ELSE ~HasKey(c.relationKeyIDTip, from)

\* C14 witness: the block at height 0 bound identity 1 and then unbound it.
C14_Witness ==
    /\ HasKey(dbActive, 0)
    /\ Len(dbActive[0]) = 2
    /\ dbActive[0][1][2] = 1 /\ dbActive[0][1][3] = 2
    /\ dbActive[0][2][2] = 1 /\ dbActive[0][2][3] = NullKeyID
    /\ HasKey(relationsHistoryMap, 1)
    /\ relationsHistoryMap[1] = MapPut(EmptyMap, 0, NullKeyID)
    /\ ~HasKey(relationKeyIDTip, 1)

\* C15: invariant I3, the legacy mirror.  When every height is run in legacy
\* mode, relationTip has GetPlotID(from) -> GetPlotID(to) exactly when
\* relationKeyIDTip has from -> to, and it has no entry for the plot id of
\* an identity that is unbound: one with no recorded change, or whose latest
\* recorded change is an unbind.
C15_LegacyMirror ==
    poc21Height > MaxHeight =>
        /\ DOMAIN relationTip = {GetPlotID(from) : from \in DOMAIN relationKeyIDTip}
        /\ \A from \in DOMAIN relationKeyIDTip :
               relationTip[GetPlotID(from)] = GetPlotID(relationKeyIDTip[from])
        /\ \A from \in KeyIDs :
               (~HasKey(relationsHistoryMap, from)
                    \/ LatestTarget(View, from) = NullKeyID) =>
                   ~HasKey(relationTip, GetPlotID(from))

\* The blocks of C16 and C17: a bind, an unbind and a bind to a foreign
\* identity.
MirrorTxIds == {1, 2, 18}

\* C16: with poc21 = true, ConnectBlock of any block, DisconnectBlock and
\* LoadRelationFromDisk of any height leave relationTip as it is.
C16_MirrorUntouched ==
    /\ \A h \in Heights, blk \in BlocksOver(MirrorTxIds) :
           ConnectBlock(View, h, blk, TRUE, {}).view.relationTip = relationTip
    /\ \A h \in Heights, ub \in IteratorOutcomes :
           DisconnectBlock(View, h, TRUE, TRUE, ub).view.relationTip = relationTip
    /\ \A h \in Heights :
           LoadRelationFromDisk(View, h, TRUE, TRUE).view.relationTip = relationTip

\* C16 witness: height 0 was run in legacy mode and height 1 with poc21; the
\* plot-id tip holds what height 0 left and nothing of the bind of identity 2
\* at height 1.
C16_Witness ==
    /\ poc21Height = 1
    /\ chainHeight = 1
    /\ HasKey(dbActive, 1)
    /\ HasKey(relationTip, GetPlotID(1))
    /\ HasKey(relationKeyIDTip, 2)
    /\ ~HasKey(relationTip, GetPlotID(2))

\* C17: the contract of To.  With poc21 it is the relationKeyIDTip lookup.
\* In legacy mode, after a bind of A to B accepted in legacy mode,
\* relationTip has GetPlotID(A) -> GetPlotID(B) and To gives B.  In both
\* modes a missing tip entry, a missing registry record or a failed read
\* gives the null identity.
C17_ResolveContract ==
    /\ \A from \in KeyIDs, readOk \in BOOLEAN :
           /\ To(View, from, GetPlotID(from), TRUE, readOk) =
                  (IF HasKey(relationKeyIDTip, from) THEN relationKeyIDTip[from]
                   ELSE NullKeyID)
           /\ ~HasKey(relationTip, GetPlotID(from)) =>
                  To(View, from, GetPlotID(from), FALSE, readOk) = NullKeyID
           /\ To(View, from, GetPlotID(from), FALSE, FALSE) = NullKeyID
           /\ To([View EXCEPT !.dbRelationId = EmptyMap], from, GetPlotID(from),
                 FALSE, readOk) = NullKeyID
    /\ \A h \in HeightsAbove(View), i \in MirrorTxIds :
           LET a == DecodeActionOf[i].action
               c == ConnectBlock(View, h, <<i>>, FALSE, {}).view
           IN  IsBind(a) =>
                   /\ HasKey(c.relationTip, GetPlotID(a[2]))
                   /\ c.relationTip[GetPlotID(a[2])] = GetPlotID(a[3])
                   /\ To(c, a[2], GetPlotID(a[2]), FALSE, TRUE) = a[3]

\* C17 witness: identity 1 was bound to 2 in legacy mode and To, by the
\* plot-id path, gives 2.
C17_Witness ==
    /\ poc21Height > MaxHeight
    /\ HasKey(relationTip, GetPlotID(1))
    /\ relationTip[GetPlotID(1)] = GetPlotID(2)
    /\ HasKey(dbRelationId, GetPlotID(2))
    /\ To(View, 1, GetPlotID(1), FALSE, TRUE) = 2

\* C18: ListRelations is a snapshot of the active delegations.  It returns
\* <<from, to>> exactly for the identities whose latest change is a bind to
\* to, and no pair whose target is the null identity.
C18_ListIsSnapshot ==
    /\ \A pair \in ListRelations(View) : pair[2] # NullKeyID
    /\ \A from \in KeyIDs, to \in KeyIDs \ {NullKeyID} :
           (<<from, to>> \in ListRelations(View)) <=>
               (HasKey(relationsHistoryMap, from) /\ LatestTarget(View, from) = to)

\* C19: undo-log presence.  After connects and disconnects with successful
\* writes, the store has an undo-log entry for a height exactly when a block
\* is connected at the height and it produced an accepted action.
C19_LogPresence ==
    /\ DOMAIN blockAt = 0..chainHeight
    /\ \A h \in Heights :
           HasKey(dbActive, h) <=>
               (HasKey(blockAt, h) /\ ChangesOf(blockAt[h]) # <<>>)

\* C19 witness: the block connected at height 0 holds a transaction and
\* produced no accepted action, and has no entry; the block at height 1
\* produced one, and has an entry.
C19_Witness ==
    /\ chainHeight = 1
    /\ blockAt[0] # <<>>
    /\ ChangesOf(blockAt[0]) = <<>>
    /\ ~HasKey(dbActive, 0)
    /\ HasKey(dbActive, 1)

\* C20: per-height atomicity under crash.  Whatever step the program takes,
\* the process stopping in ConnectBlock included, the undo-log entry of a
\* height is afterwards absent, or what it was before the step, or the
\* accepted changes of the whole block passed to ConnectBlock at the height;
\* never a strict prefix of them.
C20_CrashAtomic ==
    [][\A h \in Heights :
           HasKey(dbActive', h) =>
               \/ HasKey(dbActive, h) /\ dbActive'[h] = dbActive[h]
               \/ HasKey(blockAt', h) /\ dbActive'[h] = ChangesOf(blockAt'[h])]_vars

\* C20 witness: in legacy mode the process stopped in the ConnectBlock of
\* height 0 after an accepted bind of a block with two accepted actions: the
\* registry has the records of the bind, the undo log has no entry.
C20_Witness ==
    /\ chainHeight = -1
    /\ loadedHeight = -1
    /\ HasKey(blockAt, 0)
    /\ Len(ChangesOf(blockAt[0])) = 2
    /\ dbRelationId # EmptyMap
    /\ ~HasKey(dbActive, 0)

\* C21: the plot-id registry is append-only.  No step (ConnectBlock,
\* DisconnectBlock, restart, LoadRelationFromDisk) deletes or changes a
\* registry record, and accepting in legacy mode a bind whose two records
\* the registry holds leaves the registry as it is.
C21_RegistryAppendOnly ==
    [][/\ \A plot \in DOMAIN dbRelationId :
              HasKey(dbRelationId', plot) /\ dbRelationId'[plot] = dbRelationId[plot]
       /\ \A i \in MirrorTxIds, h \in Heights :
              LET a == DecodeActionOf[i].action
              IN  (/\ IsBind(a)
                   /\ HasKey(dbRelationId, GetPlotID(a[2]))
                   /\ dbRelationId[GetPlotID(a[2])] = a[2]
                   /\ HasKey(dbRelationId, GetPlotID(a[3]))
                   /\ dbRelationId[GetPlotID(a[3])] = a[3]) =>
                      AcceptAction(View, h, TxPool[i].hash, a, <<>>, FALSE, TRUE)
                          .view.dbRelationId = dbRelationId]_vars

\* C21 witness: the block whose legacy bind of 1 to 2 wrote the records was
\* disconnected; the chain and the undo log are empty, the records are there.
C21_Witness ==
    /\ poc21Height > MaxHeight
    /\ chainHeight = -1
    /\ dbActive = EmptyMap
    /\ relationsHistoryMap = EmptyMap
    /\ HasKey(dbRelationId, GetPlotID(1))
    /\ dbRelationId[GetPlotID(1)] = 1
    /\ HasKey(dbRelationId, GetPlotID(2))
    /\ dbRelationId[GetPlotID(2)] = 2

\* The history entries of from in v below height.
EntriesBelow(v, from, height) ==
    [h \in {g \in DOMAIN v.relationsHistoryMap[from] : g < height}
        |-> v.relationsHistoryMap[from][h]]

\* The target of the entry of the greatest height of a non-empty history list.
TopTarget(list) == list[CHOOSE h \in DOMAIN list : \A g \in DOMAIN list : g <= h]

\* C22: the recomputation of DisconnectBlock(H).  For every identity with a
\* history entry at H the entries at H and above are removed; when none
\* remains the identity leaves the history and the tip maps; otherwise the
\* tip is the target of the remaining entry of the greatest height when that
\* entry is a bind, and the identity has no tip entry when it is an unbind.
\* (Stated for the runs in which the loop visits every element.)
C22_DisconnectRecomputes ==
    \A H \in Heights :
        LET poc21 == Poc21At(H)
            d == DisconnectBlock(View, H, poc21, TRUE, "next").view
        IN  \A from \in DOMAIN relationsHistoryMap :
                HasKey(relationsHistoryMap[from], H) =>
                    LET rest == EntriesBelow(View, from, H)
                    IN  IF DOMAIN rest = {}
                        THEN /\ ~HasKey(d.relationsHistoryMap, from)
                             /\ ~HasKey(d.relationKeyIDTip, from)
                             /\ ~poc21 => ~HasKey(d.relationTip, GetPlotID(from))
                        ELSE /\ HasKey(d.relationsHistoryMap, from)
                             /\ d.relationsHistoryMap[from] = rest
                             /\ IF TopTarget(rest) # NullKeyID
                                THEN /\ HasKey(d.relationKeyIDTip, from)
                                     /\ d.relationKeyIDTip[from] = TopTarget(rest)
                                ELSE ~HasKey(d.relationKeyIDTip, from)

\* The memory ConnectBlock left at a height: for each identity its history
\* entry at the height, when it has one.
EntriesAt(v, height) ==
    [from \in {f \in DOMAIN v.relationsHistoryMap :
                   HasKey(v.relationsHistoryMap[f], height)}
        |-> v.relationsHistoryMap[from][height]]

\* The view with the store of v and empty maps.
FreshOver(v) ==
    [v EXCEPT !.relationKeyIDTip = EmptyMap, !.relationTip = EmptyMap,
              !.relationsHistoryMap = EmptyMap]

\* C23: invariant I4, no drift from disk.  After a ConnectBlock at H, a store
\* write failing or not, the history entries the memory holds at H are those
\* the replay of the stored undo-log entry of H alone gives.
C23_NoDrift ==
    \A H \in HeightsAbove(View), blk \in BlocksOver(ReorgTxIds), fails \in FailSets :
        LET c == ConnectBlock(View, H, blk, Poc21At(H), fails).view
        IN  EntriesAt(c, H) =
                EntriesAt(LoadRelationFromDisk(FreshOver(c), H, Poc21At(H), TRUE).view, H)

\* C24: the disconnect of an untouched height.  DisconnectBlock(H) leaves the
\* tip entries and the history of every identity with no history entry at H
\* as they are, and changes none of the three maps when no identity has one;
\* it returns normally.
C24_UntouchedHeight ==
    \A H \in Heights, poc21 \in BOOLEAN, ub \in IteratorOutcomes :
        LET r == DisconnectBlock(View, H, poc21, TRUE, ub)
            d == r.view
            touched == {f \in DOMAIN relationsHistoryMap :
                            HasKey(relationsHistoryMap[f], H)}
        IN  /\ r.ret = "void"
            /\ touched = {} => Mem(d) = Mem(View)
            /\ \A from \in KeyIDs \ touched :
                   /\ HasKey(d.relationsHistoryMap, from) = HasKey(relationsHistoryMap, from)
                   /\ HasKey(relationsHistoryMap, from) =>
                          d.relationsHistoryMap[from] = relationsHistoryMap[from]
                   /\ HasKey(d.relationKeyIDTip, from) = HasKey(relationKeyIDTip, from)
                   /\ HasKey(relationKeyIDTip, from) =>
                          d.relationKeyIDTip[from] = relationKeyIDTip[from]
                   /\ HasKey(d.relationTip, GetPlotID(from))
                          = HasKey(relationTip, GetPlotID(from))
                   /\ HasKey(relationTip, GetPlotID(from)) =>
                          d.relationTip[GetPlotID(from)] = relationTip[GetPlotID(from)]

\* C24 witness: identity 1 has its one history entry at height 0 and a tip,
\* identity 2 has entries at height 1 and above: the disconnect of height 1
\* or 2 finds 1 untouched, and the disconnect of a height no entry is at
\* finds every identity untouched.
C24_Witness ==
    /\ chainHeight = 1
    /\ HasKey(relationsHistoryMap, 1)
    /\ DOMAIN relationsHistoryMap[1] = {0}
    /\ HasKey(relationKeyIDTip, 1)
    /\ HasKey(relationsHistoryMap, 2)
    /\ DOMAIN relationsHistoryMap[2] = {1}

\* C25: height order is authoritative across blocks.  For an identity with
\* stored changes at two heights h1 < h2, after LoadRelationFromDisk of the
\* two heights into an empty view, in either call order, the tip of the
\* identity is the last change of h2: its target, or no entry for an unbind.
C25_HeightOrder ==
    \A h1 \in DOMAIN dbActive, h2 \in DOMAIN dbActive :
        h1 < h2 =>
            \A order \in {<<h1, h2>>, <<h2, h1>>} :
                LET a == LoadRelationFromDisk(FreshOver(View), order[1],
                                              Poc21At(order[1]), TRUE).view
                    b == LoadRelationFromDisk(a, order[2], Poc21At(order[2]), TRUE).view
                IN  \A from \in KeyIDs :
                        (/\ ChangesFor(dbActive[h1], from) # {}
                         /\ ChangesFor(dbActive[h2], from) # {}) =>
                            IF LastTarget(dbActive[h2], from) # NullKeyID
                            THEN /\ HasKey(b.relationKeyIDTip, from)
                                 /\ b.relationKeyIDTip[from] = LastTarget(dbActive[h2], from)
                            ELSE ~HasKey(b.relationKeyIDTip, from)

\* C26, as stated: accepting a bind with poc21 = true leaves relationTip as
\* it is and writes the two registry records of the bind to the store.
C26_RegistryAsymmetry ==
    \A i \in MirrorTxIds, h \in Heights :
        LET a == DecodeActionOf[i].action
            r == AcceptAction(View, h, TxPool[i].hash, a, <<>>, TRUE, TRUE).view
        IN  IsBind(a) =>
                /\ r.relationTip = relationTip
                /\ HasKey(r.dbRelationId, GetPlotID(a[2]))
                /\ r.dbRelationId[GetPlotID(a[2])] = a[2]
                /\ HasKey(r.dbRelationId, GetPlotID(a[3]))
                /\ r.dbRelationId[GetPlotID(a[3])] = a[3]

\* C26, amended: accepting a bind with poc21 = true leaves relationTip and
\* the registry as they are; the two registry records are written in legacy
\* mode alone, together with the plot-id tip.
C26_RegistryLegacyOnly ==
    \A i \in MirrorTxIds, h \in Heights :
        LET a == DecodeActionOf[i].action
            r == AcceptAction(View, h, TxPool[i].hash, a, <<>>, TRUE, TRUE).view
            l == AcceptAction(View, h, TxPool[i].hash, a, <<>>, FALSE, TRUE).view
        IN  IsBind(a) =>
                /\ r.relationTip = relationTip
                /\ r.dbRelationId = dbRelationId
                /\ r.relationKeyIDTip = MapPut(relationKeyIDTip, a[2], a[3])
                /\ l.relationTip = MapPut(relationTip, GetPlotID(a[2]), GetPlotID(a[3]))
                /\ l.dbRelationId = MapPut(MapPut(dbRelationId, GetPlotID(a[2]), a[2]),
                                           GetPlotID(a[3]), a[3])

\* C26 witness: with poc21 at every height the bind of 1 to 2 was accepted;
\* the store has the undo-log entry and no registry record.
C26_Witness ==
    /\ poc21Height = 0
    /\ chainHeight = 0
    /\ HasKey(relationKeyIDTip, 1)
    /\ relationKeyIDTip[1] = 2
    /\ HasKey(dbActive, 0)
    /\ dbRelationId = EmptyMap
    /\ relationTip = EmptyMap

\* C27: with poc21 at every height, every identity with a relationKeyIDTip
\* entry has a non-empty history, and relationsHistoryMap holds no identity
\* with an empty history.
C27_TipHasHistory ==
    poc21Height = 0 =>
        /\ \A from \in DOMAIN relationKeyIDTip :
               HasKey(relationsHistoryMap, from)
                   /\ DOMAIN relationsHistoryMap[from] # {}
        /\ \A from \in DOMAIN relationsHistoryMap :
               DOMAIN relationsHistoryMap[from] # {}

\* C27 witness: with poc21 at every height, the chain is empty again after
\* blocks with changes of identity 1 were connected and disconnected, and
\* the history holds no identity; and a state where 1 has a tip and a history.
C27_Witness ==
    /\ poc21Height = 0
    /\ chainHeight = 0
    /\ loadedHeight = 0
    /\ HasKey(relationKeyIDTip, 1)
    /\ DOMAIN relationsHistoryMap = {1}
    /\ ~HasKey(relationKeyIDTip, 2)

\* C28: DisconnectBlock is idempotent per height.  From every reachable
\* state, DisconnectBlock(H) called twice leaves the three maps and the undo
\* log as DisconnectBlock(H) called once leaves them.
C28_DisconnectIdempotent ==
    \A H \in Heights, ub1 \in IteratorOutcomes, ub2 \in IteratorOutcomes :
        LET poc21 == Poc21At(H)
            d1 == DisconnectBlock(View, H, poc21, TRUE, ub1).view
            d2 == DisconnectBlock(d1, H, poc21, TRUE, ub2).view
        IN  d2 = d1

=============================================================================
